---- MODULE Spec2Model ----
(***************************************************************************)
(* git-branch-cleanup (src/cmd/main.go): the diff normalizer, the commit   *)
(* fingerprint cache, the merge detector findMerged and the auto-delete    *)
(* driver main, as a state machine.                                        *)
(*                                                                         *)
(* Text is modelled as a sequence of one-character strings, so that the    *)
(* regular expressions, strings.Split / strings.Join and the string        *)
(* similarity act on characters as the Go code does.  Similarity scores    *)
(* (float32 in the code) are exact rationals <<num, den>> in lowest terms. *)
(***************************************************************************)
EXTENDS Integers, Sequences, FiniteSets, TLC

VARIABLES
    \* ---- the normalizer harness (removeGitShaFromGitDiff applied to inputs)
    nStage,     \* "in" -> "once" -> "twice" ("idle": not used)
    nIn1,       \* a diff text
    nIn2,       \* the same diff text with other blob hashes on its index lines
    nLines,     \* the kinds of the lines nIn1 and nIn2 were built from
    nAbbrev,    \* the abbreviation length of the blob hashes of nIn1 and nIn2
    nOut1,      \* removeGitShaFromGitDiff(nIn1)
    nOut2,      \* removeGitShaFromGitDiff(nIn2)
    nTwice      \* removeGitShaFromGitDiff(nOut1)

VARIABLES
    \* ---- the program: main, findMerged and the fingerprint cache
    repo,            \* the git repository the commands read (fixed during a run)
    env,             \* the command line, the branch listing and HEAD
    pc,              \* where main is: "parse" .. "loop", "act", "exit"
    progOpts,        \* the parsed options
    branches,        \* result of getBranches
    currentBranch,   \* result of getCurrentBranch
    idx,             \* position of the range loop in branches
    potentialMerged, \* result of the last findMerged call: NilPtr or Ptr(verdict)
    CommitDiffCache, \* the fingerprint cache: sha -> CommitDiff
    exitCode,        \* the process's exit code once pc = "exit"
    stdout,          \* what main printed, one record per report
    stderr,          \* the "ignoring ..." and fatal messages
    deleted,         \* the branches deleteBranch was invoked with, in order
    calls,           \* the findMerged calls so far: branch, result, queries issued
    showCalls,       \* sha -> number of getCommitDiffOnly invocations
    lookups,         \* sha -> the values successful getCommitDiff calls returned
    failures         \* git commands that have failed so far in this run

mvars == <<repo, env, pc, progOpts, branches, currentBranch, idx, potentialMerged,
           CommitDiffCache, exitCode, stdout, stderr, deleted, calls, showCalls,
           lookups, failures>>

nvars == <<nStage, nIn1, nIn2, nLines, nAbbrev, nOut1, nOut2, nTwice>>

(***************************************************************************)
(* Text helpers                                                            *)
(***************************************************************************)
NL == "\n"

RECURSIVE Rep(_, _)
\* n copies of the character c
Rep(c, n) == IF n = 0 THEN <<>> ELSE <<c>> \o Rep(c, n - 1)

\* s[from..] (1-based), empty when from is past the end
Drop(s, from) == SubSeq(s, from, Len(s))

\* does text s start with text p
HasPrefix(s, p) == Len(s) >= Len(p) /\ SubSeq(s, 1, Len(p)) = p

RECURSIVE Split(_, _)
\* strings.Split(s, sep) for a one-character separator: always at least one field
Split(s, sep) ==
    IF \A i \in 1..Len(s) : s[i] # sep
    THEN <<s>>
    ELSE LET k == CHOOSE i \in 1..Len(s) :
                      s[i] = sep /\ \A j \in 1..(i - 1) : s[j] # sep
         IN  <<SubSeq(s, 1, k - 1)>> \o Split(Drop(s, k + 1), sep)

RECURSIVE Join(_, _)
\* strings.Join(fields, sep)
Join(fields, sep) ==
    IF fields = <<>> THEN <<>>
    ELSE IF Len(fields) = 1 THEN fields[1]
    ELSE fields[1] \o <<sep>> \o Join(Tail(fields), sep)

HexChars == {"0", "1", "2", "3", "4", "5", "6", "7", "8", "9",
             "a", "b", "c", "d", "e", "f"}
DigitChars == {"0", "1", "2", "3", "4", "5", "6", "7", "8", "9"}

AllIn(s, from, to, set) == \A i \in from..to : s[i] \in set

\* A table is a set of <<key, value>> pairs computed once; Memo looks a key up.
\* The tables below hold the values of the text functions on the texts of the
\* repositories, so that they are computed once and not at every step.
Memo(table, key) == (CHOOSE e \in table : e[1] = key)[2]

(***************************************************************************)
(* Diff Normalizer: src/cmd/main.go 87-109                                 *)
(***************************************************************************)
\* the {8} of the three index regular expressions
HashLen == 8
\* the {6} of the mode group of indexRegxp
ModeLen == 6

IndexKw == <<"i", "n", "d", "e", "x", " ">>
DotDot  == <<".", ".">>
ZHash    == <<"z", "z", "z", "z", "z", "z", "z", "z">>
ZeroHash == <<"0", "0", "0", "0", "0", "0", "0", "0">>

\* `^index [0-9a-f]{8}\.\.[0-9a-f]{8} ([0-9]{6})$`
indexRegxp(l) ==
    LET a == Len(IndexKw)           \* end of "index "
        b == a + HashLen            \* end of the first hash
        c == b + Len(DotDot)        \* end of ".."
        d == c + HashLen            \* end of the second hash
    IN  /\ Len(l) = d + 1 + ModeLen
        /\ HasPrefix(l, IndexKw)
        /\ AllIn(l, a + 1, b, HexChars)
        /\ SubSeq(l, b + 1, c) = DotDot
        /\ AllIn(l, c + 1, d, HexChars)
        /\ l[d + 1] = " "
        /\ AllIn(l, d + 2, d + 1 + ModeLen, DigitChars)

\* $1 of indexRegxp: the six digits of the mode
indexRegxpMode(l) == SubSeq(l, Len(l) - ModeLen + 1, Len(l))

\* `^index 0{8}\.\..*$`
indexRegxpNewFile(l) ==
    /\ HasPrefix(l, IndexKw \o Rep("0", HashLen) \o DotDot)
    /\ \A i \in 1..Len(l) : l[i] # NL

\* `^index [0-9a-f]{8}\.\..*$`
indexRegxpDeleteFile(l) ==
    /\ Len(l) >= Len(IndexKw) + HashLen + Len(DotDot)
    /\ HasPrefix(l, IndexKw)
    /\ AllIn(l, Len(IndexKw) + 1, Len(IndexKw) + HashLen, HexChars)
    /\ SubSeq(l, Len(IndexKw) + HashLen + 1, Len(IndexKw) + HashLen + 2) = DotDot
    /\ \A i \in 1..Len(l) : l[i] # NL

\* `^@@ [^@]* @@`: 0 when the line does not match, else the position of the
\* last character of the match.  [^@]* cannot cross an '@', so the closing
\* " @@" is at the first '@' after the opening "@@ ".
changeLocation(l) ==
    IF ~HasPrefix(l, <<"@", "@", " ">>) THEN 0
    ELSE IF \A i \in 4..Len(l) : l[i] # "@" THEN 0
    ELSE LET k == CHOOSE i \in 4..Len(l) :
                      l[i] = "@" /\ \A j \in 4..(i - 1) : l[j] # "@"
         IN  IF k >= 5 /\ l[k - 1] = " " /\ k + 1 <= Len(l) /\ l[k + 1] = "@"
             THEN k + 1 ELSE 0

\* the four ReplaceAllString calls of the loop body, in the code's order
normalizeLine(l) ==
    LET l1 == IF indexRegxp(l)
              THEN IndexKw \o ZHash \o DotDot \o ZHash \o <<" ">> \o indexRegxpMode(l)
              ELSE l
        l2 == IF indexRegxpNewFile(l1) THEN IndexKw \o ZeroHash \o DotDot \o ZHash ELSE l1
        l3 == IF indexRegxpDeleteFile(l2) THEN IndexKw \o ZHash \o DotDot \o ZeroHash ELSE l2
        l4 == IF changeLocation(l3) > 0
              THEN <<"@", "@", " ", ".", ".", ".", " ", "@", "@">> \o Drop(l3, changeLocation(l3) + 1)
              ELSE l3
    IN  l4

removeGitShaFromGitDiff(gitDiff) ==
    LET lines == Split(gitDiff, NL)
    IN  Join([i \in 1..Len(lines) |-> normalizeLine(lines[i])], NL) \o <<NL>>

(***************************************************************************)
(* Inputs of the normalizer: diff texts of up to MaxLines lines, each line *)
(* one of the kinds git emits, with blob hashes of the abbreviation length *)
(* nAbbrev (git picks the length per repository; 7 is its default).        *)
(***************************************************************************)
MaxLines == 2

AbbrevLens == (HashLen - 1)..(HashLen + 1)

LineKinds == {"mod", "new", "del", "hunk", "hdr", "add", "ctx"}
IndexKinds == {"mod", "new", "del"}

\* a line of kind k, with blob hashes made of the hex digits h1 and h2
DiffLine(k, n, h1, h2) ==
    CASE k = "mod"  -> IndexKw \o Rep(h1, n) \o DotDot \o Rep(h2, n)
                       \o <<" ", "1", "0", "0", "6", "4", "4">>
      [] k = "new"  -> IndexKw \o Rep("0", n) \o DotDot \o Rep(h2, n)
      [] k = "del"  -> IndexKw \o Rep(h1, n) \o DotDot \o Rep("0", n)
      [] k = "hunk" -> <<"@", "@", " ", "-", "1", " ", "+", "1", " ", "@", "@", " ", "f">>
      [] k = "hdr"  -> <<"-", "-", "-", " ", "a", "/", "f">>
      [] k = "add"  -> <<"+", "x">>
      [] k = "ctx"  -> <<" ", "y">>

DiffText(kinds, n, h1, h2) ==
    Join([i \in 1..Len(kinds) |-> DiffLine(kinds[i], n, h1, h2)], NL)

Templates == UNION {[1..k -> LineKinds] : k \in 0..MaxLines}

NormInit ==
    /\ nStage = "in"
    /\ nLines \in Templates
    /\ nAbbrev \in AbbrevLens
    /\ nIn1 = DiffText(nLines, nAbbrev, "1", "a")
    /\ \E h1 \in {"1", "2"}, h2 \in {"a", "b"} : nIn2 = DiffText(nLines, nAbbrev, h1, h2)
    /\ nOut1 = <<>>
    /\ nOut2 = <<>>
    /\ nTwice = <<>>

\* normalize both inputs
Normalize ==
    /\ nStage = "in"
    /\ nStage' = "once"
    /\ nOut1' = removeGitShaFromGitDiff(nIn1)
    /\ nOut2' = removeGitShaFromGitDiff(nIn2)
    /\ UNCHANGED <<nIn1, nIn2, nLines, nAbbrev, nTwice>>
    /\ UNCHANGED mvars

\* normalize the normalized text again
NormalizeAgain ==
    /\ nStage = "once"
    /\ nStage' = "twice"
    /\ nTwice' = removeGitShaFromGitDiff(nOut1)
    /\ UNCHANGED <<nIn1, nIn2, nLines, nAbbrev, nOut1, nOut2>>
    /\ UNCHANGED mvars

(***************************************************************************)
(* String similarity: beda.NewStringDiff(a, b).JaroWinklerDistance(0.1),   *)
(* called at src/cmd/main.go 235-236, 253-254 and 278-279.  The library is *)
(* not part of the repository; this is the Jaro-Winkler similarity:        *)
(* characters match within a window of max(len)/2 - 1 positions, half the  *)
(* out-of-order matches count as transpositions, and the common prefix is  *)
(* weighted by p.  The library counts the common prefix up to 5            *)
(* characters: its output recorded at src/unnamed/part_002 166-167 (Jaro   *)
(* 0.84454864, Jaro-Winkler 0.92227435 at p = 0.1) is a boost of 5 * p of  *)
(* the gap to 1.  The float32 result is kept as an exact fraction          *)
(* <<num, den>>.                                                           *)
(***************************************************************************)
RECURSIVE GCD(_, _)
GCD(a, b) == IF b = 0 THEN a ELSE GCD(b, a % b)

\* the fraction n/d in lowest terms
Frac(n, d) == LET g == GCD(n, d) IN <<n \div g, d \div g>>

One  == <<1, 1>>
Zero == <<0, 1>>

\* a > b, a >= b for fractions with positive denominators
Gt(a, b) == a[1] * b[2] > b[1] * a[2]

Max2(a, b) == IF a > b THEN a ELSE b
Min2(a, b) == IF a < b THEN a ELSE b

\* one round of the matching loop: the first position of s2 inside the window
\* of position i of s1 that holds the same character and is not yet matched.
\* acc is <<positions of s1 matched (in order), used>>, where used[k] tells
\* whether position k of s2 is matched.
JaroStep(s1, s2, w, i, acc) ==
    LET cand == {k \in Max2(1, i - w)..Min2(Len(s2), i + w) : ~acc[2][k] /\ s2[k] = s1[i]}
    IN  IF cand = {} THEN acc
        ELSE <<Append(acc[1], i),
               [acc[2] EXCEPT ![CHOOSE x \in cand : \A y \in cand : x <= y] = TRUE]>>

RECURSIVE JaroMatches(_, _, _, _, _, _)
\* the matching loop over the positions lo..hi of s1, in increasing order
\* (split in halves, and acc looked at first, to keep the evaluation shallow)
JaroMatches(s1, s2, w, lo, hi, acc) ==
    IF lo > hi \/ Len(acc[1]) > Len(s1) THEN acc
    ELSE IF lo = hi THEN JaroStep(s1, s2, w, lo, acc)
    ELSE JaroMatches(s1, s2, w, ((lo + hi) \div 2) + 1, hi,
                     JaroMatches(s1, s2, w, lo, (lo + hi) \div 2, acc))

RECURSIVE CommonPrefix(_, _, _)
\* length of the common prefix of s1 and s2, counted up to max characters
CommonPrefix(s1, s2, max) ==
    IF max = 0 \/ s1 = <<>> \/ s2 = <<>> \/ Head(s1) # Head(s2) THEN 0
    ELSE 1 + CommonPrefix(Tail(s1), Tail(s2), max - 1)

\* the library's prefix length limit and the scaling factor p = 0.1 = 1/PInv
PrefixMax == 5
PInv == 10

JaroWinklerDistance(s1, s2) ==
    IF s1 = s2 THEN One
    ELSE IF Len(s1) = 0 \/ Len(s2) = 0 THEN Zero
    ELSE
      LET w    == Max2(0, (Max2(Len(s1), Len(s2)) \div 2) - 1)
          mm   == JaroMatches(s1, s2, w, 1, Len(s1), <<<<>>, [k \in 1..Len(s2) |-> FALSE]>>)
          m1   == mm[1]
          isUsed(k) == mm[2][k]
          m2   == SelectSeq([k \in 1..Len(s2) |-> k], isUsed)
          m    == Len(m1)
          half == Cardinality({j \in 1..m : s1[m1[j]] # s2[m2[j]]})
          t    == half \div 2
          jn   == m * m * Len(s2) + m * m * Len(s1) + (m - t) * Len(s1) * Len(s2)
          jd   == 3 * Len(s1) * Len(s2) * m
          l    == CommonPrefix(s1, s2, PrefixMax)
      IN  IF m = 0 THEN Zero
          ELSE Frac(PInv * jn + l * (jd - jn), PInv * jd)

(***************************************************************************)
(* The repository the git commands read.  History is a tree: a root commit *)
(* R, the trunk commits T1..Tn on top of it and the candidate's commits    *)
(* F1..Fm on top of it.  A commit has a subject and a tree; the tree is    *)
(* the content of the one file f.  The texts git prints are built from     *)
(* these, so `git show c` and `git diff c^..c` agree as they do in git.    *)
(* Branch "feat" points at the newest F commit, branch "old" at F1 (both   *)
(* at R when there is no F commit), branch "zed" at R, the trunk branch at  *)
(* the newest T.                                                           *)
(***************************************************************************)
Nil == "nil"
\* a Go pointer: NilPtr, or Ptr(v) whose value is Deref(p)
NilPtr == <<>>
Ptr(v) == <<v>>
Deref(p) == p[1]

SubjA == <<"f", "i", "x", "a", "b">>
SubjB == <<"f", "i", "x", "a", "c">>
SubjZ == <<"z", "q">>
TrunkSubjects == {SubjA, SubjB, SubjZ}
FeatSubjects  == {SubjA, SubjZ}
Contents == {"x", "y"}
RootTree == "x"

\* the most commits a repository holds on top of the root
MaxCommits == 3

TrunkCommit == [subject : TrunkSubjects, tree : Contents]
FeatCommit  == [subject : FeatSubjects, tree : Contents]

\* the lengths git abbreviates blob hashes to in the repositories tried: its
\* default of 7 characters, and the 8 of the sample lines at lines 86-92
RepoAbbrevs == {HashLen - 1, HashLen}

\* trunk and feat list their commits oldest first; abbrev is the length of
\* the blob hashes git prints in this repository
Repos ==
    UNION { [trunk : [1..nt -> TrunkCommit], feat : [1..nf -> FeatCommit], abbrev : RepoAbbrevs] :
            <<nt, nf>> \in {c \in (0..MaxCommits) \X (0..MaxCommits) : c[1] + c[2] <= MaxCommits} }

Root == <<"R", 0>>
TrunkTip == IF Len(repo.trunk) = 0 THEN Root ELSE <<"T", Len(repo.trunk)>>
FeatTip  == IF Len(repo.feat) = 0 THEN Root ELSE <<"F", Len(repo.feat)>>
OldTip   == IF Len(repo.feat) = 0 THEN Root ELSE <<"F", 1>>

TrunkNames == {"main", "master", "trunk"}

\* revisions: a sha is <<"R"|"T"|"F", n>>, a branch name is Ref(name), sha^ is Caret(sha)
Ref(name) == <<"ref", name>>
Caret(sha) == <<"^", sha>>

Parent(c) == IF c[2] > 1 THEN <<c[1], c[2] - 1>> ELSE Root

Resolve(rev) ==
    CASE rev[1] = "ref" -> (CASE rev[2] = "feat" -> FeatTip
                              [] rev[2] = "old"  -> OldTip
                              [] rev[2] = "zed"  -> Root
                              [] OTHER           -> TrunkTip)
      [] rev[1] = "^"   -> Parent(rev[2])
      [] OTHER          -> rev

SubjectOf(c) ==
    CASE c[1] = "T" -> repo.trunk[c[2]].subject
      [] c[1] = "F" -> repo.feat[c[2]].subject
      [] OTHER      -> SubjZ

TreeOf(c) ==
    CASE c[1] = "T" -> repo.trunk[c[2]].tree
      [] c[1] = "F" -> repo.feat[c[2]].tree
      [] OTHER      -> RootTree

RECURSIVE Ancestors(_)
\* a commit and its ancestors, newest first
Ancestors(c) == IF c = Root THEN <<Root>> ELSE <<c>> \o Ancestors(Parent(c))

Range(s) == {s[i] : i \in 1..Len(s)}

RECURSIVE Filter(_, _)
\* the elements of s that are not in the set drop, in order
Filter(s, drop) ==
    IF s = <<>> THEN <<>>
    ELSE IF Head(s) \in drop THEN Filter(Tail(s), drop)
    ELSE <<Head(s)>> \o Filter(Tail(s), drop)

\* the blob hash git prints for a content of file f, abbreviated to n characters
BlobHash(content, n) == Rep(IF content = "x" THEN "1" ELSE "a", n)

\* what `git --no-pager diff` prints for the change of f from content a to b
\* with hashes of n characters
DiffText2(a, b, n) ==
    IF a = b THEN <<>>
    ELSE Join(<< <<"d", "i", "f", "f", " ", "-", "-", "g", "i", "t">> \o <<" ", "a", "/", "f", " ", "b", "/", "f">>,
                 IndexKw \o BlobHash(a, n) \o DotDot \o BlobHash(b, n) \o <<" ", "1", "0", "0", "6", "4", "4">>,
                 <<"-", "-", "-", " ", "a", "/", "f">>,
                 <<"+", "+", "+", " ", "b", "/", "f">>,
                 <<"@", "@", " ", "-", "1", " ", "+", "1", " ", "@", "@">>,
                 <<"-", a>>,
                 <<"+", b>> >>, NL)

DiffTable == {<<k, DiffText2(k[1], k[2], k[3])>> : k \in Contents \X Contents \X RepoAbbrevs}
DiffOfTrees(a, b, n) == Memo(DiffTable, <<a, b, n>>)

DiffGitKw == <<"d", "i", "f", "f", " ", "-", "-", "g", "i", "t">>

\* what `git --no-pager show` prints, trimmed, for a commit with this subject
\* that changes f from content a to b, with hashes of n characters: the
\* message, then the diff
GitShow(subject, a, b, n) ==
    LET d == DiffOfTrees(a, b, n)
    IN  <<"c", "o", "m", "m", "i", "t">> \o <<NL, NL, " ", " ", " ", " ">> \o subject
        \o (IF d = <<>> THEN <<>> ELSE <<NL, NL>> \o d)

(***************************************************************************)
(* Git Plumbing Adapter: src/cmd/main.go 55-85, 145-165.  These give the   *)
(* output of a command that succeeded; whether a command fails is decided  *)
(* where it is issued (see Issue and Failed below).                        *)
(***************************************************************************)
getGitRevParse(rev) == Resolve(rev)

getGitMergeBase(a, b) ==
    LET aa == Ancestors(Resolve(a))
        bb == Range(Ancestors(Resolve(b)))
    IN  aa[CHOOSE i \in 1..Len(aa) : aa[i] \in bb /\ \A j \in 1..(i - 1) : aa[j] \notin bb]

getCommitSubject(commit) == SubjectOf(commit)

\* lines 80-84: strings.SplitN(contents, "\ndiff --git", 2), then "diff --git" + parts[1]
diffPart(contents) ==
    LET sep  == <<NL>> \o DiffGitKw
        hits == {i \in 1..Len(contents) : HasPrefix(Drop(contents, i), sep)}
    IN  IF hits = {} THEN <<>>
        ELSE LET i == CHOOSE x \in hits : \A y \in hits : x <= y
             IN  DiffGitKw \o Drop(contents, i + Len(sep))

DiffOnlyTable ==
    {<<k, diffPart(GitShow(k[1], k[2], k[3], k[4]))>> :
        k \in (TrunkSubjects \cup FeatSubjects \cup {SubjZ}) \X Contents \X Contents \X RepoAbbrevs}

\* lines 75-85
getCommitDiffOnly(commit) ==
    Memo(DiffOnlyTable, <<SubjectOf(commit), TreeOf(Parent(commit)), TreeOf(commit), repo.abbrev>>)

\* start..end: reachable from end and not from start, newest first
getCommits(start, end) ==
    Filter(Ancestors(Resolve(end)), Range(Ancestors(Resolve(start))))

getGitDiff(start, end) == DiffOfTrees(TreeOf(Resolve(start)), TreeOf(Resolve(end)), repo.abbrev)

(***************************************************************************)
(* The text functions on the texts of the repositories, computed once.     *)
(***************************************************************************)
ShowDiffs == {e[2] : e \in DiffOnlyTable}
NormTable == {<<d, removeGitShaFromGitDiff(d)>> : d \in ShowDiffs}
\* line 134 on a text of the repositories
normalized(gitDiff) == Memo(NormTable, gitDiff)

RepoTexts ==
    TrunkSubjects \cup FeatSubjects \cup {e[2] : e \in NormTable} \cup {e[2] : e \in DiffTable}
SimTable == {<<p, JaroWinklerDistance(p[1], p[2])>> : p \in RepoTexts \X RepoTexts}
\* beda.NewStringDiff(a, b).JaroWinklerDistance(0.1) on texts of the repositories
similarity(a, b) == Memo(SimTable, <<a, b>>)

(***************************************************************************)
(* Failing commands.  Any git command may fail.  A findMerged call returns *)
(* at the first failure, so the failures of one call are described by      *)
(* failAt: the position, among the commands the call issues, of the one    *)
(* that fails (0: none fails).  st carries what a call reads and writes:   *)
(* the cache, the log of getCommitDiffOnly invocations, the values of      *)
(* successful getCommitDiff calls and the commands issued by this call.    *)
(***************************************************************************)
Issue(st, kind) == [st EXCEPT !.q = Append(@, kind)]
Failed(st, failAt) == Len(st.q) = failAt

(***************************************************************************)
(* Commit Fingerprint Cache: src/cmd/main.go 111-143                       *)
(***************************************************************************)
CommitDiff(sha, subject, diff) == [Sha |-> sha, Subject |-> subject, Diff |-> diff]

\* line 141 left out: nothing is stored
cacheStoreNothing(cache, commit, commitDiff) == cache

\* line 141 storing the value as it was before its Diff was set (line 135)
cacheStoreStale(cache, commit, commitDiff) ==
    (commit :> [commitDiff EXCEPT !.Diff = <<>>]) @@ cache

\* line 141: CommitDiffCache[commit] = &commitDiff
cacheStore(cache, commit, commitDiff) == (commit :> commitDiff) @@ cache

\* lines 131-142: the cache misses; showed is the state after the show command
\* was issued, commitDiff the value the two commands yield
getCommitDiffMiss(commit, showed, commitDiff, failAt) ==
    IF Failed(showed, failAt) THEN [ok |-> FALSE, val |-> Nil, st |-> showed]
    ELSE IF Failed(Issue(showed, "subject"), failAt)
    THEN [ok |-> FALSE, val |-> Nil, st |-> Issue(showed, "subject")]
    ELSE [ok |-> TRUE, val |-> commitDiff,
          st |-> [Issue(showed, "subject") EXCEPT
                    !.cache = cacheStore(@, commit, commitDiff),
                    !.lookups = @ \cup {<<commit, commitDiff>>}]]

\* lines 125-143
getCommitDiff(commit, st, failAt) ==
    IF commit \in DOMAIN st.cache
    THEN [ok |-> TRUE, val |-> st.cache[commit],
          st |-> [st EXCEPT !.lookups = @ \cup {<<commit, st.cache[commit]>>}]]
    ELSE getCommitDiffMiss(commit,
                           [Issue(st, "show") EXCEPT !.showCalls = Append(@, commit)],
                           CommitDiff(commit, getCommitSubject(commit),
                                      normalized(getCommitDiffOnly(commit))),
                           failAt)

(***************************************************************************)
(* Merge Detector: src/cmd/main.go 167-290                                 *)
(***************************************************************************)
\* lines 193-200 (DiffSize and DiffCmd keep their zero values)
exactVerdict(branch, base) ==
    [Branch |-> branch, MergedSha |-> base, Merged |-> TRUE,
     SubjectScore |-> One, DiffScore |-> One, DiffSize |-> 0, NumCommits |-> 0,
     DiffCmd |-> <<>>]

\* lines 260-268
singleVerdict(branch, branchDiff, highestDiff, highestSubjectScore, diffScore) ==
    [Branch |-> branch, MergedSha |-> branchDiff.Sha, Merged |-> FALSE,
     SubjectScore |-> highestSubjectScore, DiffScore |-> diffScore,
     DiffSize |-> Len(branchDiff.Diff), NumCommits |-> 1,
     DiffCmd |-> <<"show", Ref(branch), highestDiff.Sha>>]

\* lines 281-289
squashVerdict(branch, base, branchDiff, branchCommits, highestDiff, highestSubjectScore, diffScore, combinedDiff) ==
    [Branch |-> branch, MergedSha |-> branchDiff.Sha, Merged |-> FALSE,
     SubjectScore |-> highestSubjectScore, DiffScore |-> diffScore,
     DiffSize |-> Len(combinedDiff), NumCommits |-> Len(branchCommits),
     DiffCmd |-> <<"diff", base, Ref(branch), Caret(highestDiff.Sha), highestDiff.Sha>>]

\* line 238 with >= for >: the last maximum is kept, not the first
betterSubjectOrEqual(subjectScore, highestSubjectScore) ==
    ~Gt(highestSubjectScore, subjectScore)

\* line 238: subjectScore > highestSubjectScore
betterSubject(subjectScore, highestSubjectScore) == Gt(subjectScore, highestSubjectScore)

\* line 214 taking the last element of branchCommits, the oldest commit
representativeOldest(branchCommits) == branchCommits[Len(branchCommits)]

\* line 214: the commit whose fingerprint represents the candidate
representative(branchCommits) == branchCommits[1]

\* lines 179-180 with a best score that any similarity exceeds
NoMatchNegative == [highestSubjectScore |-> <<-1, 1>>, highestDiff |-> NilPtr, highestCombinedDiff |-> <<>>]

NoMatch == [highestSubjectScore |-> Zero, highestDiff |-> NilPtr, highestCombinedDiff |-> <<>>]

Returned(ret, st)  == [ret |-> ret, err |-> FALSE, panic |-> FALSE, st |-> st]
ReturnedErr(st)    == [ret |-> NilPtr, err |-> TRUE,  panic |-> FALSE, st |-> st]
Panicked(st)       == [ret |-> NilPtr, err |-> FALSE, panic |-> TRUE,  st |-> st]

\* lines 235-242 without line 239: the best score is never raised
trunkCompareKeepsScore(branchDiff, combinedDiff, acc, commitDiff, subjectScore) ==
    IF betterSubject(subjectScore, acc.highestSubjectScore)
    THEN [highestSubjectScore |-> acc.highestSubjectScore, highestDiff |-> Ptr(commitDiff),
          highestCombinedDiff |-> combinedDiff]
    ELSE acc

\* lines 235-242: one trunk commit compared with the candidate's subject
trunkCompare(branchDiff, combinedDiff, acc, commitDiff, subjectScore) ==
    IF betterSubject(subjectScore, acc.highestSubjectScore)
    THEN [highestSubjectScore |-> subjectScore, highestDiff |-> Ptr(commitDiff),
          highestCombinedDiff |-> combinedDiff]
    ELSE acc

RECURSIVE trunkLoop(_, _, _, _, _, _)
RECURSIVE trunkStep(_, _, _, _, _, _)
\* lines 229-243: the loop over the trunk's commits
trunkLoop(commits, branchDiff, combinedDiff, acc, st, failAt) ==
    IF commits = <<>> THEN [ok |-> TRUE, acc |-> acc, st |-> st]
    ELSE trunkStep(commits, branchDiff, combinedDiff, acc,
                   getCommitDiff(Head(commits), st, failAt), failAt)

\* lines 230-242: the loop body, r being what getCommitDiff returned
trunkStep(commits, branchDiff, combinedDiff, acc, r, failAt) ==
    IF ~r.ok THEN [ok |-> FALSE, acc |-> acc, st |-> r.st]
    ELSE trunkLoop(Tail(commits), branchDiff, combinedDiff,
                   trunkCompare(branchDiff, combinedDiff, acc, r.val,
                                similarity(branchDiff.Subject, r.val.Subject)),
                   r.st, failAt)

\* lines 271-289: the candidate has several commits; combinedDiff is the diff of
\* the best match, diffed is the state after that diff command was issued
findMergedSquash(branch, base, branchCommits, branchDiff, acc, combinedDiff, diffed, failAt) ==
    IF Failed(diffed, failAt) THEN ReturnedErr(diffed)
    ELSE Returned(Ptr(squashVerdict(branch, base, branchDiff, branchCommits,
                                    Deref(acc.highestDiff), acc.highestSubjectScore,
                                    similarity(combinedDiff, acc.highestCombinedDiff),
                                    combinedDiff)), diffed)

\* lines 245-289: after the loop
findMergedScore(branch, base, branchCommits, branchDiff, acc, st, failAt) ==
    IF acc.highestDiff = NilPtr THEN Returned(NilPtr, st)
    ELSE IF acc.highestCombinedDiff = <<>>
    THEN IF Len(branchCommits) # 1 THEN Panicked(st)
         ELSE Returned(Ptr(singleVerdict(branch, branchDiff, Deref(acc.highestDiff),
                         acc.highestSubjectScore,
                         similarity(branchDiff.Diff, Deref(acc.highestDiff).Diff))), st)
    ELSE findMergedSquash(branch, base, branchCommits, branchDiff, acc,
                          getGitDiff(Caret(Deref(acc.highestDiff).Sha),
                                     Deref(acc.highestDiff).Sha),
                          Issue(st, "diff"), failAt)

\* lines 231-233: the error of the loop ends the call
findMergedLoop(branch, base, branchCommits, branchDiff, loop, failAt) ==
    IF ~loop.ok THEN ReturnedErr(loop.st)
    ELSE findMergedScore(branch, base, branchCommits, branchDiff, loop.acc, loop.st, failAt)

\* lines 224-243: the trunk's commits since the base; logged is the state after
\* the log command was issued
findMergedTrunk(current, branch, base, branchCommits, branchDiff, combinedDiff, logged, failAt) ==
    IF Failed(logged, failAt) THEN ReturnedErr(logged)
    ELSE findMergedLoop(branch, base, branchCommits, branchDiff,
                        trunkLoop(getCommits(base, Ref(current)), branchDiff, combinedDiff,
                                  NoMatch, logged, failAt),
                        failAt)

\* lines 216-222: the combined diff of a candidate with several commits
findMergedCombined(current, branch, base, branchCommits, branchDiff, diffed, failAt) ==
    IF Failed(diffed, failAt) THEN ReturnedErr(diffed)
    ELSE findMergedTrunk(current, branch, base, branchCommits, branchDiff,
                         getGitDiff(base, Ref(branch)), Issue(diffed, "log"), failAt)

\* lines 211-222: bd is what getCommitDiff returned for the representative
findMergedBranchDiff(current, branch, base, branchCommits, bd, failAt) ==
    IF ~bd.ok THEN ReturnedErr(bd.st)
    ELSE IF Len(branchCommits) > 1
    THEN findMergedCombined(current, branch, base, branchCommits, bd.val,
                            Issue(bd.st, "diff"), failAt)
    ELSE findMergedTrunk(current, branch, base, branchCommits, bd.val, <<>>,
                         Issue(bd.st, "log"), failAt)

\* lines 203-214: the candidate's commits; logged is the state after the log
\* command was issued
findMergedCommits(current, branch, base, branchCommits, logged, failAt) ==
    IF Failed(logged, failAt) THEN ReturnedErr(logged)
    ELSE IF Len(branchCommits) = 0 THEN Panicked(logged)
    ELSE findMergedBranchDiff(current, branch, base, branchCommits,
                              getCommitDiff(representative(branchCommits), logged, failAt),
                              failAt)

\* lines 179-201 without the early return of lines 192-201
findMergedBaseNoExact(current, branch, base, branchSha, st, failAt) ==
    IF Failed(Issue(st, "merge-base"), failAt) THEN ReturnedErr(Issue(st, "merge-base"))
    ELSE IF Failed(Issue(Issue(st, "merge-base"), "rev-parse"), failAt)
    THEN ReturnedErr(Issue(Issue(st, "merge-base"), "rev-parse"))
    ELSE findMergedCommits(current, branch, base, getCommits(base, Ref(branch)),
                           Issue(Issue(Issue(st, "merge-base"), "rev-parse"), "log"), failAt)

\* lines 179-201: base and branchSha are what the two commands yield
findMergedBase(current, branch, base, branchSha, st, failAt) ==
    IF Failed(Issue(st, "merge-base"), failAt) THEN ReturnedErr(Issue(st, "merge-base"))
    ELSE IF Failed(Issue(Issue(st, "merge-base"), "rev-parse"), failAt)
    THEN ReturnedErr(Issue(Issue(st, "merge-base"), "rev-parse"))
    ELSE IF base = branchSha
    THEN Returned(Ptr(exactVerdict(branch, base)), Issue(Issue(st, "merge-base"), "rev-parse"))
    ELSE findMergedCommits(current, branch, base, getCommits(base, Ref(branch)),
                           Issue(Issue(Issue(st, "merge-base"), "rev-parse"), "log"), failAt)

\* lines 178-290
findMerged(current, branch, st, failAt) ==
    findMergedBase(current, branch, getGitMergeBase(Ref(current), Ref(branch)),
                   getGitRevParse(Ref(branch)), st, failAt)

(***************************************************************************)
(* Report/Action Driver: src/cmd/main.go 292-387                           *)
(***************************************************************************)
\* line 365: the size guard of a perfect match
MinSizeGuard == 10
\* the exit status of a Go program that panics
PanicExit == 2

\* line 312: progOpts := opts{}
ZeroOpts ==
    [Verbose |-> FALSE, Version |-> FALSE, Perfect |-> FALSE,
     MinSubjectScore |-> Zero, MinDiffScore |-> Zero]

\* lines 292-298: the defaults of the option struct, default:"0.9"
DefaultScore == <<"0", ".", "9">>

RECURSIVE Pow10(_)
Pow10(n) == IF n = 0 THEN 1 ELSE 10 * Pow10(n - 1)

Digits == <<"0", "1", "2", "3", "4", "5", "6", "7", "8", "9">>
DigitVal(c) == (CHOOSE i \in 1..Len(Digits) : Digits[i] = c) - 1

RECURSIVE ParseNat(_)
ParseNat(s) ==
    IF s = <<>> THEN 0 ELSE 10 * ParseNat(SubSeq(s, 1, Len(s) - 1)) + DigitVal(s[Len(s)])

\* the float32 option values of lines 296-297 as go-flags parses them: decimal
\* digits with at most one point; anything else is an error (NilPtr)
ParseFloat(s) ==
    LET points == {i \in 1..Len(s) : s[i] = "."}
        digits == SelectSeq(s, LAMBDA c : c # ".")
    IN  IF digits = <<>> \/ Cardinality(points) > 1 \/ ~AllIn(digits, 1, Len(digits), DigitChars)
        THEN NilPtr
        ELSE Ptr(Frac(ParseNat(digits),
                      Pow10(IF points = {} THEN 0 ELSE Len(s) - (CHOOSE i \in points : TRUE))))

DefaultOpts ==
    [Verbose |-> FALSE, Version |-> FALSE, Perfect |-> FALSE,
     MinSubjectScore |-> Deref(ParseFloat(DefaultScore)),
     MinDiffScore |-> Deref(ParseFloat(DefaultScore))]

\* the words of a command line, as texts
OptVerbose == <<"-", "-", "v", "e", "r", "b", "o", "s", "e">>
OptVerboseShort == <<"-", "v">>
OptVersion == <<"-", "-", "v", "e", "r", "s", "i", "o", "n">>
OptVersionShort == <<"-", "V">>
OptPerfect == <<"-", "-", "p", "e", "r", "f", "e", "c", "t">>
OptMinSubjectScore == <<"-", "-", "m", "i", "n", "-", "s", "u", "b", "j", "e", "c", "t", "-", "s", "c", "o", "r", "e">>
OptMinDiffScore == <<"-", "-", "m", "i", "n", "-", "d", "i", "f", "f", "-", "s", "c", "o", "r", "e">>
OptBogus == <<"-", "-", "b", "o", "g", "u", "s">>
DoubleDash == <<"-", "-">>
WordFoo == <<"f", "o", "o">>

\* go-flags: an argument of more than one character that starts with '-'
isOption(arg) == Len(arg) > 1 /\ arg[1] = "-"

RECURSIVE ParseArgs(_, _)
\* lines 312-323: go-flags fills the struct.  With PassDoubleDash and
\* PassAfterNonOption (line 313) parsing stops at "--" and at the first
\* argument that is not an option, and what is left is returned as the
\* remaining arguments, which line 319 discards; an unknown flag, a flag
\* without its value and a value that is not a number are errors (NilPtr)
ParseArgs(args, o) ==
    IF args = <<>> THEN Ptr(o)
    ELSE CASE Head(args) = DoubleDash -> Ptr(o)
           [] ~isOption(Head(args)) -> Ptr(o)
           [] Head(args) \in {OptVerbose, OptVerboseShort} -> ParseArgs(Tail(args), [o EXCEPT !.Verbose = TRUE])
           [] Head(args) \in {OptVersion, OptVersionShort} -> ParseArgs(Tail(args), [o EXCEPT !.Version = TRUE])
           [] Head(args) = OptPerfect -> ParseArgs(Tail(args), [o EXCEPT !.Perfect = TRUE])
           [] Head(args) = OptMinSubjectScore /\ Len(args) > 1 /\ ParseFloat(args[2]) # NilPtr ->
                  ParseArgs(Tail(Tail(args)),
                            [o EXCEPT !.MinSubjectScore = Deref(ParseFloat(args[2]))])
           [] Head(args) = OptMinDiffScore /\ Len(args) > 1 /\ ParseFloat(args[2]) # NilPtr ->
                  ParseArgs(Tail(Tail(args)),
                            [o EXCEPT !.MinDiffScore = Deref(ParseFloat(args[2]))])
           [] OTHER -> NilPtr

\* line 364
aboveThresholds(pm, o) ==
    Gt(pm.SubjectScore, o.MinSubjectScore) /\ Gt(pm.DiffScore, o.MinDiffScore)

\* line 365 without the size guard
perfectDiffMatchAnySize(pm) == pm.DiffScore = One

\* line 365
perfectDiffMatch(pm) == pm.DiffScore = One /\ pm.DiffSize > MinSizeGuard

\* lines 335-340 without the default case
isTrunkNameAny(name) == TRUE

\* lines 335-340: the switch on the current branch
isTrunkName(name) == name \in {"main", "master", "trunk"}

\* line 343 comparing with a fixed trunk name
isCurrentMaster(branch, current) == branch = "master"

\* line 343: branch == currentBranch
isCurrent(branch, current) == branch = current

\* the command lines, branch listings and HEADs a run may meet
ArgChoices ==
    { <<>>, <<OptPerfect>>, <<OptVersion>>, <<OptBogus>>,
      <<OptMinSubjectScore, <<"0", ".", "5">>, OptMinDiffScore, <<"0", ".", "5">>>>,
      <<OptMinDiffScore, <<"h", "i", "g", "h">>>>,
      <<WordFoo>>, <<OptPerfect, WordFoo>>, <<DoubleDash>>, <<DoubleDash, OptBogus>> }

BaseEnv == [args |-> <<>>, list |-> <<"feat", "main", "old", "zed">>, head |-> "main"]

Envs ==
    {[args |-> a, list |-> BaseEnv.list, head |-> "main"] : a \in ArgChoices}
    \cup {[args |-> <<>>, list |-> l, head |-> "main"] :
              l \in {<<"old", "feat", "main">>, <<"main", "old", "feat">>}}
    \cup {[args |-> <<>>, list |-> <<"feat", "master", "old">>, head |-> h] :
              h \in {"master", "old", Nil}}
    \cup {[args |-> <<>>, list |-> <<"feat", "old", "trunk">>, head |-> "trunk"]}

\* the listing with the branch old ahead of the branch feat
ReorderedEnv == [args |-> <<>>, list |-> <<"old", "feat", "main">>, head |-> "main"]

\* the repositories tried with every environment; the larger ones are tried
\* with the default command line only, under the two listings
SmallRepos == {r \in Repos : Len(r.trunk) + Len(r.feat) < MaxCommits}

MainInit ==
    /\ env \in Envs
    /\ repo \in (IF env \in {BaseEnv, ReorderedEnv} THEN Repos ELSE SmallRepos)
    /\ pc = "parse"
    /\ progOpts = ZeroOpts
    /\ branches = <<>>
    /\ currentBranch = Nil
    /\ idx = 0
    /\ potentialMerged = NilPtr
    /\ CommitDiffCache = <<>>
    /\ exitCode = 0
    /\ stdout = <<>>
    /\ stderr = <<>>
    /\ deleted = <<>>
    /\ calls = <<>>
    /\ showCalls = <<>>
    /\ lookups = {}
    /\ failures = 0

\* the most git commands that fail in one run
MaxFailures == 1

CanFail == failures < MaxFailures

\* die: the message goes to standard error, exit status 1
die(msg) ==
    /\ stderr' = Append(stderr, msg)
    /\ exitCode' = 1
    /\ pc' = "exit"

\* lines 312-323
Parse ==
    /\ pc = "parse"
    /\ LET o == ParseArgs(env.args, DefaultOpts)
       IN  IF o = NilPtr
           THEN /\ die(<<"usage">>)
                /\ UNCHANGED progOpts
           ELSE /\ progOpts' = Deref(o)
                /\ pc' = "getBranches"
                /\ UNCHANGED <<stderr, exitCode>>
    /\ UNCHANGED <<repo, env, branches, currentBranch, idx, potentialMerged, CommitDiffCache,
                   stdout, deleted, calls, showCalls, lookups, failures>>
    /\ UNCHANGED nvars

\* lines 325-328
GetBranches ==
    /\ pc = "getBranches"
    /\ \E ok \in BOOLEAN :
         /\ ~ok => CanFail
         /\ IF ok
            THEN /\ branches' = env.list
                 /\ pc' = "getCurrentBranch"
                 /\ UNCHANGED <<stderr, exitCode, failures>>
            ELSE /\ die(<<"failed to get branches">>)
                 /\ failures' = failures + 1
                 /\ UNCHANGED branches
    /\ UNCHANGED <<repo, env, progOpts, currentBranch, idx, potentialMerged, CommitDiffCache,
                   stdout, deleted, calls, showCalls, lookups>>
    /\ UNCHANGED nvars

\* lines 330-333, with getCurrentBranch (67-73): symbolic-ref fails on a detached HEAD
GetCurrentBranch ==
    /\ pc = "getCurrentBranch"
    /\ \E ok \in BOOLEAN :
         /\ (~ok /\ env.head # Nil) => CanFail
         /\ IF ok /\ env.head # Nil
            THEN /\ currentBranch' = env.head
                 /\ pc' = "checkTrunk"
                 /\ UNCHANGED <<stderr, exitCode, failures>>
            ELSE /\ die(<<"failed to get current branch">>)
                 /\ failures' = IF env.head # Nil THEN failures + 1 ELSE failures
                 /\ UNCHANGED currentBranch
    /\ UNCHANGED <<repo, env, progOpts, branches, idx, potentialMerged, CommitDiffCache,
                   stdout, deleted, calls, showCalls, lookups>>
    /\ UNCHANGED nvars

\* lines 335-340
CheckTrunk ==
    /\ pc = "checkTrunk"
    /\ IF isTrunkName(currentBranch)
       THEN /\ pc' = "loop"
            /\ idx' = 1
            /\ UNCHANGED <<stderr, exitCode>>
       ELSE /\ die(<<"current branch is", currentBranch>>)
            /\ UNCHANGED idx
    /\ UNCHANGED <<repo, env, progOpts, branches, currentBranch, potentialMerged,
                   CommitDiffCache, stdout, deleted, calls, showCalls, lookups, failures>>
    /\ UNCHANGED nvars

\* lines 343-345
SkipCurrent ==
    /\ pc = "loop"
    /\ idx <= Len(branches)
    /\ isCurrent(branches[idx], currentBranch)
    /\ idx' = idx + 1
    /\ UNCHANGED <<repo, env, pc, progOpts, branches, currentBranch, potentialMerged,
                   CommitDiffCache, exitCode, stdout, stderr, deleted, calls, showCalls,
                   lookups, failures>>
    /\ UNCHANGED nvars

\* what one findMerged call reads: the cache and the logs kept beside it
callState == [cache |-> CommitDiffCache, showCalls |-> showCalls, lookups |-> lookups,
              q |-> <<>>]

\* the number of commands findMerged issues for the branch when none fails
commandsOf(r) == Len(r.st.q)

\* lines 347-350 with r what findMerged returned (a panic ends the process)
detected(branch, r) ==
    /\ CommitDiffCache' = r.st.cache
    /\ showCalls' = r.st.showCalls
    /\ lookups' = r.st.lookups
    /\ failures' = IF r.err THEN failures + 1 ELSE failures
    /\ calls' = Append(calls, [branch |-> branch, ret |-> r.ret, err |-> r.err,
                              panic |-> r.panic, q |-> r.st.q])
    /\ potentialMerged' = r.ret
    /\ IF r.panic
       THEN /\ exitCode' = PanicExit
            /\ pc' = "exit"
            /\ stderr' = Append(stderr, <<"panic", branch>>)
       ELSE /\ pc' = "act"
            /\ stderr' = IF r.err THEN Append(stderr, <<"ignoring", branch>>) ELSE stderr
            /\ UNCHANGED exitCode

\* lines 347-350: the findMerged call and the report of its error
Detect ==
    /\ pc = "loop"
    /\ idx <= Len(branches)
    /\ ~isCurrent(branches[idx], currentBranch)
    /\ \E failAt \in 0..(IF CanFail
                         THEN commandsOf(findMerged(currentBranch, branches[idx], callState, 0))
                         ELSE 0) :
         detected(branches[idx], findMerged(currentBranch, branches[idx], callState, failAt))
    /\ UNCHANGED <<repo, env, progOpts, branches, currentBranch, idx, stdout, deleted>>
    /\ UNCHANGED nvars

\* lines 351-353
NotMerged ==
    /\ pc = "act"
    /\ potentialMerged = NilPtr
    /\ pc' = "loop"
    /\ idx' = idx + 1
    /\ UNCHANGED <<repo, env, progOpts, branches, currentBranch, potentialMerged,
                   CommitDiffCache, exitCode, stdout, stderr, deleted, calls, showCalls,
                   lookups, failures>>
    /\ UNCHANGED nvars

\* lines 300-304 with the error of git branch -D reported and the loop going on
deleteBranchIgnoringError(branchName, report) ==
    \E ok \in BOOLEAN :
      /\ ~ok => CanFail
      /\ deleted' = Append(deleted, branchName)
      /\ stdout' = stdout \o <<<<report, branchName>>, <<"deleting branch", branchName>>,
                                <<"blank", branchName>>>>
      /\ stderr' = IF ok THEN stderr
                   ELSE Append(stderr, <<"failed to delete branch", branchName>>)
      /\ failures' = IF ok THEN failures ELSE failures + 1
      /\ pc' = "loop"
      /\ idx' = idx + 1
      /\ UNCHANGED exitCode

\* lines 300-304 as called from 357 and 369: prints, runs git branch -D, and
\* main dies when that fails
deleteBranch(branchName, report) ==
    \E ok \in BOOLEAN :
      /\ ~ok => CanFail
      /\ deleted' = Append(deleted, branchName)
      /\ IF ok
         THEN /\ stdout' = stdout \o <<<<report, branchName>>, <<"deleting branch", branchName>>,
                                       <<"blank", branchName>>>>
              /\ pc' = "loop"
              /\ idx' = idx + 1
              /\ UNCHANGED <<stderr, exitCode, failures>>
         ELSE /\ stdout' = stdout \o <<<<report, branchName>>, <<"deleting branch", branchName>>>>
              /\ die(<<"failed to delete branch", branchName>>)
              /\ failures' = failures + 1
              /\ UNCHANGED idx

\* lines 355-362
DeleteClean ==
    /\ pc = "act"
    /\ potentialMerged # NilPtr
    /\ Deref(potentialMerged).Merged
    /\ deleteBranch(branches[idx], "cleanly merged")
    /\ UNCHANGED <<repo, env, progOpts, branches, currentBranch, potentialMerged,
                   CommitDiffCache, calls, showCalls, lookups>>
    /\ UNCHANGED nvars

\* lines 364-374
DeletePerfect ==
    /\ pc = "act"
    /\ potentialMerged # NilPtr
    /\ ~Deref(potentialMerged).Merged
    /\ aboveThresholds(Deref(potentialMerged), progOpts)
    /\ perfectDiffMatch(Deref(potentialMerged))
    /\ deleteBranch(branches[idx], "merged")
    /\ UNCHANGED <<repo, env, progOpts, branches, currentBranch, potentialMerged,
                   CommitDiffCache, calls, showCalls, lookups>>
    /\ UNCHANGED nvars

\* lines 376-384
Advise ==
    /\ pc = "act"
    /\ potentialMerged # NilPtr
    /\ ~Deref(potentialMerged).Merged
    /\ aboveThresholds(Deref(potentialMerged), progOpts)
    /\ ~perfectDiffMatch(Deref(potentialMerged))
    /\ stdout' = stdout
                 \o <<<<"potentially merged", branches[idx]>>>>
                 \o (IF Deref(potentialMerged).NumCommits > 1
                     THEN <<<<"warning", branches[idx]>>>> ELSE <<>>)
                 \o <<<<"diff command", branches[idx]>>, <<"git branch -D", branches[idx]>>,
                      <<"blank", branches[idx]>>>>
    /\ pc' = "loop"
    /\ idx' = idx + 1
    /\ UNCHANGED <<repo, env, progOpts, branches, currentBranch, potentialMerged,
                   CommitDiffCache, exitCode, stderr, deleted, calls, showCalls, lookups,
                   failures>>
    /\ UNCHANGED nvars

\* line 364 false: the loop body ends without output
BelowThresholds ==
    /\ pc = "act"
    /\ potentialMerged # NilPtr
    /\ ~Deref(potentialMerged).Merged
    /\ ~aboveThresholds(Deref(potentialMerged), progOpts)
    /\ pc' = "loop"
    /\ idx' = idx + 1
    /\ UNCHANGED <<repo, env, progOpts, branches, currentBranch, potentialMerged,
                   CommitDiffCache, exitCode, stdout, stderr, deleted, calls, showCalls,
                   lookups, failures>>
    /\ UNCHANGED nvars

\* line 387: main returns
Finish ==
    /\ pc = "loop"
    /\ idx > Len(branches)
    /\ pc' = "exit"
    /\ exitCode' = 0
    /\ UNCHANGED <<repo, env, progOpts, branches, currentBranch, idx, potentialMerged,
                   CommitDiffCache, stdout, stderr, deleted, calls, showCalls, lookups,
                   failures>>
    /\ UNCHANGED nvars

Next ==
    \/ Parse \/ GetBranches \/ GetCurrentBranch \/ CheckTrunk
    \/ SkipCurrent \/ Detect \/ NotMerged
    \/ DeleteClean \/ DeletePerfect \/ Advise \/ BelowThresholds
    \/ Finish

vars == <<mvars, nvars>>

\* a run of the program; the normalizer harness stays idle
NormIdle ==
    /\ nStage = "idle"
    /\ nLines = <<>>
    /\ nAbbrev = HashLen
    /\ nIn1 = <<>>
    /\ nIn2 = <<>>
    /\ nOut1 = <<>>
    /\ nOut2 = <<>>
    /\ nTwice = <<>>

Init == MainInit /\ NormIdle
Spec == Init /\ [][Next]_vars

\* the normalizer applied to its inputs; the program stays idle
MainIdle ==
    /\ env = BaseEnv
    /\ repo = [trunk |-> <<>>, feat |-> <<>>]
    /\ pc = "idle"
    /\ progOpts = ZeroOpts
    /\ branches = <<>>
    /\ currentBranch = Nil
    /\ idx = 0
    /\ potentialMerged = NilPtr
    /\ CommitDiffCache = <<>>
    /\ exitCode = 0
    /\ stdout = <<>>
    /\ stderr = <<>>
    /\ deleted = <<>>
    /\ calls = <<>>
    /\ showCalls = <<>>
    /\ lookups = {}
    /\ failures = 0

InitNorm == NormInit /\ MainIdle
NextNorm == Normalize \/ NormalizeAgain
SpecNorm == InitNorm /\ [][NextNorm]_vars


(***************************************************************************)
(* Properties.  calls lists the findMerged calls of the run in order, each *)
(* with its branch, what it returned and the commands it issued; deleted   *)
(* lists the branches deleteBranch was invoked with.                       *)
(***************************************************************************)
Count(seq, x) == Cardinality({i \in 1..Len(seq) : seq[i] = x})

\* the driver is done with call j: a later call was made, or the loop moved on
acted(j) == j < Len(calls) \/ pc \in {"loop", "exit"}

callBase(c) == getGitMergeBase(Ref(currentBranch), Ref(c.branch))
callBranchCommits(c) == getCommits(callBase(c), Ref(c.branch))
callTrunkCommits(c) == getCommits(callBase(c), Ref(currentBranch))
fingerprint(commit) == normalized(getCommitDiffOnly(commit))
fuzzy(c) == c.ret # NilPtr /\ ~Deref(c.ret).Merged

\* the verdicts that C1 says are deleted
qualifies(v) ==
    \/ v.Merged
    \/ /\ Gt(v.SubjectScore, progOpts.MinSubjectScore)
       /\ Gt(v.DiffScore, progOpts.MinDiffScore)
       /\ v.DiffScore = One
       /\ v.DiffSize > MinSizeGuard

\* C1: deleteBranch(b) is invoked if and only if findMerged returned for b an
\* exact verdict, or a fuzzy verdict above both thresholds with DiffScore = 1.0
\* and DiffSize above the size guard; a fuzzy verdict above both thresholds that
\* is not perfect prints the advisory text and does not delete; a missing
\* verdict or one not above both thresholds does not delete.
C1_DeleteIffQualifies ==
    /\ \A j \in 1..Len(calls) :
         acted(j) =>
           /\ (calls[j].branch \in Range(deleted))
                <=> (calls[j].ret # NilPtr /\ qualifies(Deref(calls[j].ret)))
           /\ (/\ fuzzy(calls[j])
               /\ Gt(Deref(calls[j].ret).SubjectScore, progOpts.MinSubjectScore)
               /\ Gt(Deref(calls[j].ret).DiffScore, progOpts.MinDiffScore)
               /\ ~qualifies(Deref(calls[j].ret)))
                => <<"potentially merged", calls[j].branch>> \in Range(stdout)
    /\ \A b \in Range(deleted) : \E j \in 1..Len(calls) : calls[j].branch = b

\* a run that deleted one branch on a perfect fuzzy verdict and kept another
\* that findMerged examined without error
C1_Witness ==
    /\ \E j \in 1..Len(calls) :
         /\ fuzzy(calls[j])
         /\ qualifies(Deref(calls[j].ret))
         /\ calls[j].branch \in Range(deleted)
    /\ \E j \in 1..Len(calls) :
         /\ acted(j)
         /\ ~calls[j].err
         /\ calls[j].branch \notin Range(deleted)

\* C2: the current branch is never passed to findMerged nor to deleteBranch,
\* whatever the branch listing contains and in whatever order.
C2_CurrentBranchSkipped ==
    /\ \A j \in 1..Len(calls) : calls[j].branch # currentBranch
    /\ \A i \in 1..Len(deleted) : deleted[i] # currentBranch

\* the loop went past the current branch, listed between two other branches,
\* and examined the branches after it
C2_Witness ==
    /\ pc = "exit"
    /\ exitCode = 0
    /\ \E i \in 2..(Len(branches) - 1) : branches[i] = currentBranch
    /\ Len(calls) = Len(branches) - 1

\* C3: findMerged and deleteBranch are called only when getCurrentBranch
\* succeeded and returned main, master or trunk; with another name, or when the
\* current branch cannot be determined, the process ends with a nonzero exit
\* code and no branch was examined.
C3_TrunkPrecondition ==
    /\ (calls # <<>> \/ deleted # <<>> \/ pc \in {"loop", "act"})
         => (currentBranch \in {"main", "master", "trunk"} /\ currentBranch = env.head)
    /\ (pc = "exit" /\ currentBranch \notin {"main", "master", "trunk"})
         => (exitCode # 0 /\ calls = <<>> /\ deleted = <<>>)

\* a run on a branch that is not a trunk ended with status 1, nothing examined
C3_Witness ==
    /\ pc = "exit"
    /\ currentBranch = "old"
    /\ exitCode = 1
    /\ calls = <<>>

\* C4: when revParse(b) = mergeBase(trunk, b) and both commands succeed,
\* findMerged returns an exact verdict with both scores 1.0 and NumCommits 0,
\* issues no log, show or diff command, and leaves the cache as it was.
C4_ExactVerdict ==
    [][ (/\ Len(calls') = Len(calls) + 1
         /\ getGitRevParse(Ref(calls'[Len(calls')].branch))
              = getGitMergeBase(Ref(currentBranch), Ref(calls'[Len(calls')].branch))
         /\ ~(calls'[Len(calls')].err /\ Len(calls'[Len(calls')].q) <= 2))
        => (/\ calls'[Len(calls')].ret # NilPtr
            /\ Deref(calls'[Len(calls')].ret).Merged
            /\ Deref(calls'[Len(calls')].ret).SubjectScore = One
            /\ Deref(calls'[Len(calls')].ret).DiffScore = One
            /\ Deref(calls'[Len(calls')].ret).NumCommits = 0
            /\ calls'[Len(calls')].q = <<"merge-base", "rev-parse">>
            /\ CommitDiffCache' = CommitDiffCache
            /\ showCalls' = showCalls
            /\ lookups' = lookups) ]_vars

\* an exact verdict returned while the cache held fingerprints
C4_Witness ==
    /\ calls # <<>>
    /\ calls[Len(calls)].ret # NilPtr
    /\ Deref(calls[Len(calls)].ret).Merged
    /\ calls[Len(calls)].q = <<"merge-base", "rev-parse">>
    /\ CommitDiffCache # <<>>

\* the verdict C5 describes
rebaseVerdict(c) ==
    /\ fuzzy(c)
    /\ Deref(c.ret).SubjectScore = One
    /\ Deref(c.ret).DiffScore = One
    /\ Deref(c.ret).NumCommits = 1

\* trunk commit k of the call matches the candidate's one commit D in subject
\* and in normalized diff
matchesD(c, k) ==
    /\ getCommitSubject(callTrunkCommits(c)[k]) = getCommitSubject(callBranchCommits(c)[1])
    /\ fingerprint(callTrunkCommits(c)[k]) = fingerprint(callBranchCommits(c)[1])

\* C5 as stated: a candidate with one commit D, and some trunk commit since the
\* base with D's subject and D's normalized diff, give a fuzzy verdict with
\* SubjectScore 1.0, DiffScore 1.0 and NumCommits 1.
C5_AsStated ==
    \A j \in 1..Len(calls) :
      (/\ ~calls[j].err
       /\ Len(callBranchCommits(calls[j])) = 1
       /\ \E k \in 1..Len(callTrunkCommits(calls[j])) : matchesD(calls[j], k))
      => rebaseVerdict(calls[j])

\* C5: a candidate with one commit D gets a fuzzy verdict with SubjectScore 1.0,
\* DiffScore 1.0 and NumCommits 1 when the first trunk commit since the base, in
\* the order getCommits lists them, that has D's subject also has D's
\* normalized diff, and no command fails.
C5_RebaseFirstMatch ==
    \A j \in 1..Len(calls) :
      (/\ ~calls[j].err
       /\ Len(callBranchCommits(calls[j])) = 1
       /\ \E k \in 1..Len(callTrunkCommits(calls[j])) :
            /\ matchesD(calls[j], k)
            /\ \A i \in 1..(k - 1) :
                 getCommitSubject(callTrunkCommits(calls[j])[i])
                   # getCommitSubject(callBranchCommits(calls[j])[1]))
      => rebaseVerdict(calls[j])

\* the rebase verdict returned where the trunk has an older commit with D's
\* subject and another diff
C5_Witness ==
    \E j \in 1..Len(calls) :
      /\ rebaseVerdict(calls[j])
      /\ Len(callBranchCommits(calls[j])) = 1
      /\ \E k \in 2..Len(callTrunkCommits(calls[j])) :
           /\ getCommitSubject(callTrunkCommits(calls[j])[k])
                = getCommitSubject(callBranchCommits(calls[j])[1])
           /\ fingerprint(callTrunkCommits(calls[j])[k])
                # fingerprint(callBranchCommits(calls[j])[1])

\* C6: a candidate with n > 1 commits whose combined diff equals the diff
\* M^..M of a trunk commit M since the base gets a verdict that names M, with
\* DiffScore 1.0 and NumCommits n.
C6_SquashAsStated ==
    \A j \in 1..Len(calls) :
      (/\ ~calls[j].err
       /\ Len(callBranchCommits(calls[j])) > 1
       /\ \E k \in 1..Len(callTrunkCommits(calls[j])) :
            getGitDiff(callBase(calls[j]), Ref(calls[j].branch))
              = getGitDiff(Caret(callTrunkCommits(calls[j])[k]), callTrunkCommits(calls[j])[k]))
      => (/\ calls[j].ret # NilPtr
          /\ Deref(calls[j].ret).DiffScore = One
          /\ Deref(calls[j].ret).NumCommits = Len(callBranchCommits(calls[j]))
          /\ \E k \in 1..Len(callTrunkCommits(calls[j])) :
               /\ Deref(calls[j].ret).MergedSha = callTrunkCommits(calls[j])[k]
               /\ getGitDiff(callBase(calls[j]), Ref(calls[j].branch))
                    = getGitDiff(Caret(callTrunkCommits(calls[j])[k]),
                                 callTrunkCommits(calls[j])[k]))

\* C7: the MergedSha of every fuzzy verdict is a trunk commit since the base.
C7_MergedShaOnTrunk ==
    \A j \in 1..Len(calls) :
      fuzzy(calls[j])
        => Deref(calls[j].ret).MergedSha \in Range(callTrunkCommits(calls[j]))

\* C8: normalizing a normalized diff gives the same text.
C8_Idempotent == nStage = "twice" => nTwice = nOut1

\* the lines of kinds that C9 says pass through
passThrough == {"hdr", "add", "ctx"}

\* C9: two diffs that differ only in the hashes of their index lines normalize
\* to the same text, whatever the length of the hashes, and the file headers,
\* added and context lines come out as they went in.
C9_HashesErased ==
    nStage # "in" =>
      /\ nOut1 = nOut2
      /\ \A i \in 1..Len(nLines) :
           nLines[i] \in passThrough
             => Split(nOut1, NL)[i] = Split(nIn1, NL)[i]

\* C10 as stated: getCommitDiffOnly is invoked at most once for a sha in a run,
\* and the successful lookups of a sha return one value.
C10_AsStated ==
    /\ \A i \in 1..Len(showCalls) : Count(showCalls, showCalls[i]) <= 1
    /\ \A a \in lookups : \A b \in lookups : a[1] = b[1] => a[2] = b[2]

\* C10: once getCommitDiff has succeeded for a sha, getCommitDiffOnly is not
\* invoked for it again; one findMerged call invokes it at most once for a sha;
\* and the successful lookups of a sha return one value.
C10_ShownOncePerSuccess ==
    [][ /\ \A a \in lookups : Count(showCalls', a[1]) = Count(showCalls, a[1])
        /\ \A i \in 1..Len(showCalls') :
             Count(showCalls', showCalls'[i]) <= Count(showCalls, showCalls'[i]) + 1
        /\ \A a \in lookups' : \A b \in lookups' : a[1] = b[1] => a[2] = b[2] ]_vars

\* two findMerged calls compared their candidates with the same trunk commit,
\* which was shown once
C10_Witness ==
    \E i \in 1..Len(calls) : \E j \in (i + 1)..Len(calls) :
      /\ ~calls[i].err /\ Len(calls[i].q) > 2
      /\ ~calls[j].err /\ Len(calls[j].q) > 2
      /\ \E sha \in Range(callTrunkCommits(calls[i])) :
           /\ Count(showCalls, sha) = 1
           /\ sha \in DOMAIN CommitDiffCache


\* the run reported the failure of deleting some branch
deleteFailed == \E i \in 1..Len(stderr) : stderr[i][1] = "failed to delete branch"

\* C11: a branch for which a git query of findMerged fails is reported on
\* standard error and skipped, with no deletion and nothing on standard output
\* for it; the remaining branches are still processed, and the run ends with
\* exit code 0 unless a later deletion fails.
C11_FailureSkipsBranch ==
    \A j \in 1..Len(calls) :
      calls[j].err =>
        /\ <<"ignoring", calls[j].branch>> \in Range(stderr)
        /\ calls[j].branch \notin Range(deleted)
        /\ \A i \in 1..Len(stdout) : stdout[i][2] # calls[j].branch
        /\ pc = "exit" =>
             /\ exitCode = 0 \/ deleteFailed
             /\ ~deleteFailed =>
                  \A i \in 1..Len(branches) :
                    branches[i] # currentBranch
                      => \E k \in 1..Len(calls) : calls[k].branch = branches[i]

\* C12: when deleteBranch fails for a branch that was to be deleted, the
\* process ends at once with a nonzero exit code: that branch is the last one
\* examined and the last one deleteBranch was called for.
C12_DeleteFailureIsFatal ==
    \A i \in 1..Len(stderr) :
      stderr[i][1] = "failed to delete branch" =>
        /\ pc = "exit"
        /\ exitCode # 0
        /\ i = Len(stderr)
        /\ calls[Len(calls)].branch = stderr[i][2]
        /\ deleted[Len(deleted)] = stderr[i][2]
        /\ branches[idx] = stderr[i][2]

\* a failed deletion ended the run while branches other than the current one
\* were still to come in the listing
C12_Witness ==
    /\ deleteFailed
    /\ pc = "exit"
    /\ exitCode = 1
    /\ \E i \in (idx + 1)..Len(branches) : branches[i] # currentBranch

\* the advisory text main prints for a branch it does not delete
advisoryKinds == {"potentially merged", "warning", "diff command", "git branch -D"}

\* C13: run with --perfect, the program prints no advisory text (report line,
\* diff command, git branch -D line) for any branch.
C13_PerfectSuppressesAdvice ==
    progOpts.Perfect => \A i \in 1..Len(stdout) : stdout[i][1] \notin advisoryKinds

\* C14: run with --version, the program prints the version and exits with
\* code 0 without listing branches, running findMerged or deleting a branch
\* (stated for the runs in which no git command fails).
C14_VersionExits ==
    (progOpts.Version /\ failures = 0) =>
      /\ branches = <<>> /\ calls = <<>> /\ deleted = <<>>
      /\ pc \in {"getBranches", "exit"}
      /\ pc = "exit" => (exitCode = 0 /\ \E i \in 1..Len(stdout) : stdout[i][1] = "version")

\* what a findMerged call reads when nothing has been cached yet
freshState == [cache |-> <<>>, showCalls |-> <<>>, lookups |-> {}, q |-> <<>>]

\* C15: the verdict findMerged computes for a branch is the one it computes
\* with an empty cache, whatever earlier branches have put into the cache; so
\* it depends on the git history only, not on the listing order or on earlier
\* calls (for the calls in which no git command fails).
C15_VerdictIgnoresCache ==
    [][ (Len(calls') = Len(calls) + 1 /\ ~calls'[Len(calls')].err)
        => LET fresh == findMerged(currentBranch, calls'[Len(calls')].branch, freshState, 0)
           IN  /\ calls'[Len(calls')].ret = fresh.ret
               /\ calls'[Len(calls')].panic = fresh.panic ]_vars

\* two branches got fuzzy verdicts with different diff scores, the later one
\* computed from fingerprints of trunk commits the earlier call had cached
C15_Witness ==
    \E i \in 1..Len(calls) : \E j \in (i + 1)..Len(calls) :
      /\ fuzzy(calls[i]) /\ fuzzy(calls[j])
      /\ Deref(calls[i].ret).DiffScore # Deref(calls[j].ret).DiffScore
      /\ "show" \notin Range(SubSeq(calls[j].q, 5, Len(calls[j].q)))
      /\ callTrunkCommits(calls[j]) # <<>>

\* some trunk commit of the call is similar to the subject of the candidate's
\* representative, so a best match is selected
bestMatchSelected(c) ==
    \E k \in 1..Len(callTrunkCommits(c)) :
      Gt(similarity(getCommitSubject(representative(callBranchCommits(c))),
                    getCommitSubject(callTrunkCommits(c)[k])), Zero)

\* C16: a candidate with several commits for which a best match is selected
\* gets the verdict of the multi-commit path: NumCommits is the number of its
\* commits and DiffScore the similarity of its combined diff with the diff
\* bestMatch^..bestMatch, whatever its combined diff is; findMerged does not
\* panic.
C16_MultiCommitPath ==
    \A j \in 1..Len(calls) :
      (/\ ~calls[j].err
       /\ Len(callBranchCommits(calls[j])) > 1
       /\ bestMatchSelected(calls[j]))
      => /\ ~calls[j].panic
         /\ calls[j].ret # NilPtr
         /\ Deref(calls[j].ret).NumCommits = Len(callBranchCommits(calls[j]))
         /\ Deref(calls[j].ret).DiffCmd[1] = "diff"
         /\ Deref(calls[j].ret).DiffScore
              = similarity(getGitDiff(callBase(calls[j]), Ref(calls[j].branch)),
                           getGitDiff(Deref(calls[j].ret).DiffCmd[4],
                                      Deref(calls[j].ret).DiffCmd[5]))

\* the greatest similarity of a subject to the subjects of the commits (0 when
\* there is no commit)
maxSubjectScore(subject, commits) ==
    LET scores == {similarity(subject, getCommitSubject(commits[k])) : k \in 1..Len(commits)}
                    \cup {Zero}
    IN  CHOOSE m \in scores : \A x \in scores : ~Gt(x, m)

\* a call that compared its candidate with the trunk: no command failed, the
\* branch is not an ancestor of the trunk, and it did not panic
compared(c) == ~c.err /\ ~c.panic /\ Len(c.q) > 2

\* C17 as stated: the subject compared with the trunk's subjects is that of
\* the earliest commit of the candidate since the base, the last element of
\* getCommits(base, candidate).
C17_AsStated ==
    \A j \in 1..Len(calls) :
      fuzzy(calls[j]) =>
        Deref(calls[j].ret).SubjectScore
          = maxSubjectScore(getCommitSubject(callBranchCommits(calls[j])
                                               [Len(callBranchCommits(calls[j]))]),
                            callTrunkCommits(calls[j]))

\* C17: the subject compared with the trunk's subjects is that of the first
\* element of getCommits(base, candidate), which is the newest commit of the
\* candidate, its tip; the fingerprint looked up for the candidate is the
\* tip's.
C17_RepresentativeIsTip ==
    \A j \in 1..Len(calls) :
      compared(calls[j]) =>
        /\ callBranchCommits(calls[j])[1] = getGitRevParse(Ref(calls[j].branch))
        /\ \E a \in lookups : a[1] = callBranchCommits(calls[j])[1]
        /\ fuzzy(calls[j]) =>
             /\ Deref(calls[j].ret).SubjectScore
                  = maxSubjectScore(getCommitSubject(callBranchCommits(calls[j])[1]),
                                    callTrunkCommits(calls[j]))
             /\ Deref(calls[j].ret).NumCommits = 1
                  => Deref(calls[j].ret).DiffSize
                       = Len(fingerprint(callBranchCommits(calls[j])[1]))
        /\ ~fuzzy(calls[j]) =>
             maxSubjectScore(getCommitSubject(callBranchCommits(calls[j])[1]),
                             callTrunkCommits(calls[j])) = Zero

\* a verdict with SubjectScore 1.0 for a candidate whose newest commit has the
\* subject of a trunk commit and whose earliest commit has another subject
C17_Witness ==
    \E j \in 1..Len(calls) :
      /\ fuzzy(calls[j])
      /\ Deref(calls[j].ret).SubjectScore = One
      /\ Len(callBranchCommits(calls[j])) > 1
      /\ maxSubjectScore(getCommitSubject(callBranchCommits(calls[j])
                                            [Len(callBranchCommits(calls[j]))]),
                         callTrunkCommits(calls[j])) = Zero

\* the similarity of the subject of the candidate's tip to the subject of trunk
\* commit k of the call
subjectScoreOf(c, k) ==
    similarity(getCommitSubject(callBranchCommits(c)[1]),
               getCommitSubject(callTrunkCommits(c)[k]))

\* the trunk commit a fuzzy verdict was compared with (the last word of DiffCmd)
bestMatchOf(c) == Deref(c.ret).DiffCmd[Len(Deref(c.ret).DiffCmd)]

\* C18: the trunk commit a verdict is compared with has the greatest subject
\* similarity among the trunk commits since the base, and is the first of
\* those in the order of getCommits(base, trunk); SubjectScore is that
\* greatest similarity.
C18_FirstMaximumKept ==
    \A j \in 1..Len(calls) :
      fuzzy(calls[j]) =>
        \E k \in 1..Len(callTrunkCommits(calls[j])) :
          /\ bestMatchOf(calls[j]) = callTrunkCommits(calls[j])[k]
          /\ Deref(calls[j].ret).SubjectScore = subjectScoreOf(calls[j], k)
          /\ \A i \in 1..Len(callTrunkCommits(calls[j])) :
               ~Gt(subjectScoreOf(calls[j], i), subjectScoreOf(calls[j], k))
          /\ \A i \in 1..(k - 1) :
               Gt(subjectScoreOf(calls[j], k), subjectScoreOf(calls[j], i))

\* a verdict compared with the newer of two trunk commits that share the
\* greatest similarity
C18_Witness ==
    \E j \in 1..Len(calls) :
      /\ fuzzy(calls[j])
      /\ Len(callTrunkCommits(calls[j])) > 1
      /\ bestMatchOf(calls[j]) = callTrunkCommits(calls[j])[1]
      /\ subjectScoreOf(calls[j], 1) = subjectScoreOf(calls[j], 2)

\* a call in which every command succeeded for a candidate whose tip is not
\* the merge base
queried(c) == ~c.err /\ callBase(c) # getGitRevParse(Ref(c.branch))

\* the greatest similarity of the subject of the candidate's tip to the
\* subject of a trunk commit since the base (0 when there is none)
callMaxScore(c) ==
    maxSubjectScore(getCommitSubject(callBranchCommits(c)[1]), callTrunkCommits(c))

\* C19 as stated: with every query succeeding and the tip off the base, no
\* verdict is returned exactly when the trunk has no commit since the base.
C19_AsStated ==
    \A j \in 1..Len(calls) :
      (queried(calls[j]) /\ ~calls[j].panic) =>
        (calls[j].ret = NilPtr <=> Len(callTrunkCommits(calls[j])) = 0)

\* C19: with every query succeeding and the tip off the base, findMerged
\* returns no verdict exactly when no trunk commit since the base has a
\* subject of similarity above 0 to the subject of the candidate's tip;
\* otherwise it returns a verdict or panics.
C19_NilIffNoPositiveScore ==
    \A j \in 1..Len(calls) :
      queried(calls[j]) =>
        /\ (calls[j].ret = NilPtr /\ ~calls[j].panic) <=> callMaxScore(calls[j]) = Zero
        /\ Len(callTrunkCommits(calls[j])) = 0 => (calls[j].ret = NilPtr /\ ~calls[j].panic)

\* no verdict for a candidate although the trunk has commits since the base
C19_Witness ==
    \E j \in 1..Len(calls) :
      /\ queried(calls[j])
      /\ ~calls[j].panic
      /\ calls[j].ret = NilPtr
      /\ Len(callTrunkCommits(calls[j])) > 0

\* the placeholder C20 names for an index line of kind k
placeholder(k) ==
    CASE k = "new" -> IndexKw \o ZeroHash \o DotDot \o ZHash
      [] k = "del" -> IndexKw \o ZHash \o DotDot \o ZeroHash
      [] k = "mod" -> IndexKw \o ZHash \o DotDot \o ZHash \o <<" ", "1", "0", "0", "6", "4", "4">>

\* C20: with hashes of HashLen characters, a new-file index line normalizes
\* to `index 00000000..zzzzzzzz`, a deleted-file line to
\* `index zzzzzzzz..00000000` and a modified-file line to
\* `index zzzzzzzz..zzzzzzzz <mode>`, three different texts.
C20_IndexKindsApart ==
    (nStage # "in" /\ nAbbrev = HashLen) =>
      /\ \A i \in 1..Len(nLines) :
           nLines[i] \in IndexKinds => Split(nOut1, NL)[i] = placeholder(nLines[i])
      /\ \A i, j \in 1..Len(nLines) :
           (nLines[i] \in IndexKinds /\ nLines[j] \in IndexKinds /\ nLines[i] # nLines[j])
             => Split(nOut1, NL)[i] # Split(nOut1, NL)[j]

====
